---- MODULE Spec2Model ----
(***************************************************************************)
(* Model of the dual-investment trading loop: the cron-guarded cycle       *)
(* (mainLoop / safeRun / start), the position ledger (SharedState and      *)
(* updatePositions, backed by log/positions.log) and the hedge monitor     *)
(* (HedgeManager / DynamicHedgeStrategy / openCrossMarginPosition).        *)
(*                                                                         *)
(* A cycle is cut into the part of updatePositions that builds the active  *)
(* set, the write of positions.log, and updateSpotBalances with the stop   *)
(* checks.  mainLoop's calls to runExecution and monitorAndHedge are       *)
(* commented out in the source, so the hedge monitor is an operation of    *)
(* its own: one action is one iteration of the monitorPositions loop,      *)
(* taken while no cycle is between two of its awaits.  The balances that   *)
(* updateSpotBalances stores are read by runExecution only and are not     *)
(* part of the state.                                                      *)
(*                                                                         *)
(* runExecution, execute, borrowCoins and subscribeToProduct are modelled  *)
(* under ExecSpec: runExecution is likewise an operation of its own, taken *)
(* between two cycles, with the balances it hands to execute as an input.  *)
(*                                                                         *)
(* AllocSpec is ExecSpec with PUT_CALL_BALANCE and the mock argument of    *)
(* execute drawn from small sets instead of the shipped values.            *)
(*                                                                         *)
(* Five further specifications take one part of the program on its own:    *)
(* AuthSpec the requests the signing functions send under each setting of  *)
(* the credentials, LedgerSpec the calls of updatePosition and of          *)
(* updatePositions with a restart between them, RoiSpec the minimum-ROI    *)
(* functions of the configuration, PagingSpec the loop of fetchPositions,  *)
(* FanSpec the requests that fetchSpotPrices and                           *)
(* fetchDualInvestmentProducts send side by side.                          *)
(*                                                                         *)
(* Maps keyed by position id are total functions over Ids whose absent     *)
(* keys hold Absent.  Position ids are strings, as the exchange reports    *)
(* them, so a key read back from the JSON file equals the id it was        *)
(* written under.                                                          *)
(***************************************************************************)
EXTENDS Integers, FiniteSets, Sequences, TLC

\* ---------------------------------------------------------------- bounds
\* elapsed times are kept up to MaxAge minutes (beyond both 5-minute thresholds)
MaxAge == 6
MaxOrders == 2

\* the ROI percentages break-evens are computed for
MaxRoiPct == 15

\* the days to expiry the minimum-ROI functions are called with
MaxDays == 100

\* the pages one call of fetchPositions can get: the last one possible is short
MaxPages == 4

\* ------------------------------------------------------ program constants
\* config.MAX_TOTAL_POSITIONS (30 in the source), scaled to the two ids of the model
MAX_TOTAL_POSITIONS == 2
\* HEDGE_SAFETY.BREACH_CONFIRMATION_MINUTES
BREACH_CONFIRMATION_MINUTES == 5
\* monitorAndHedge: positions older than 5 * 60 * 1000 ms are stale (minutes here)
STALE_MINUTES == 5
\* cron.schedule('*/3 * * * *'): the clock is sampled once per cron interval
CRON_MINUTES == 3

\* HEDGE_STATUS enum and its order NONE < STEP1 < FULL
HEDGE_STATUS == {"NONE", "STEP1", "FULL"}

Rank(s) == CASE s = "NONE" -> 0 [] s = "STEP1" -> 1 [] s = "FULL" -> 2

\* ------------------------------------------------------------ input sets
Ids == {"p1", "p2"}
Absent == "ABSENT"
Null == -1
Prices == {90, 100, 110}

\* what the exchange reports for an id (constant over the id's lifetime)
OptionType(id) == IF id = "p1" THEN "PUT" ELSE "CALL"

StrikePrice(id) == 100

RoiPct(id) == 5

StatusMaps == [Ids -> HEDGE_STATUS \cup {Absent}]

EmptyMap == [i \in Ids |-> Absent]

Keys(m) == {i \in Ids : m[i] # Absent}

\* fetchPositions: null, or the list of the reported PURCHASE_SUCCESS positions
FetchResults == {[ok |-> FALSE, ids |-> {}]} \cup {[ok |-> TRUE, ids |-> S] : S \in SUBSET Ids}

\* the local of updatePositions outside the call
NoFetch == [ok |-> FALSE, ids |-> {}]

\* fs.writeFile: done, or failed leaving the old, an empty or a partial file
WriteOutcomes == {"ok", "failUnchanged", "failTruncated", "failPartial"}

\* openCrossMarginPosition: null or the order data
OrderResults == {"null", "ok"}

VARIABLES
    alive,          \* the process has not called process.exit
    cronScheduled,  \* start() has passed cron.schedule
    cronLock,       \* part_000: let cronLock
    inProgress,     \* number of mainLoop executions begun and not finished
    pc,             \* position of the mainLoop execution
    fetched,        \* updatePositions: const positions = await fetchPositions
    hedgeStatuses,  \* SharedState.hedgeStatuses
    positions,      \* SharedState.positions: id -> hedgeStatus of the entry
    sinceUpdated,   \* Date.now() - SharedState.lastUpdated, Null while it is null
    positionsFile,  \* log/positions.log: readable?, id -> stored hedgeStatus
    lastEvent,      \* history: the last trigger, settlement or order result
    breachAge,      \* history: for how long each id has been seen in breach
    orders          \* history: confirmed margin orders per id and target

vars == <<alive, cronScheduled, cronLock, inProgress, pc, fetched, hedgeStatuses,
          positions, sinceUpdated, positionsFile, lastEvent, breachAge,
          orders>>

cycleVars == <<inProgress, pc, fetched, hedgeStatuses, positions, sinceUpdated,
               positionsFile>>

histVars == <<lastEvent, breachAge, orders>>

hedgeHist == <<breachAge, orders>>

VARIABLES
    xpc,            \* position in runExecution / execute / borrowCoins / subscribeToProduct
    execList,       \* runExecution: allProcessed, the list handed to execute
    idx,            \* execute: index of the product of the for loop
    spotBalances,   \* execute: the spotBalances parameter
    need,           \* execute: putAmount or coinAmount of the current product
    borrowCoin,     \* borrowCoins: the coin parameter
    cands,          \* borrowCoins: collateralAssets after the sort
    cidx,           \* borrowCoins: index of the candidate of the for loop
    borrowResult,   \* execute: borrowResult of the current product
    borrowLog,      \* history: collateral coins of the borrow requests sent in this call
    submitted,      \* history: subscribe requests sent per product in this run
    xEvent,         \* history: the last step of the run
    products,       \* runExecution: const products = await fetchDualInvestmentProducts
    spotPrices,     \* runExecution: const spotPrices = await fetchSpotPrices
    putCallBalance, \* config.PUT_CALL_BALANCE, in percent
    mock,           \* execute: the parameter mock
    spent           \* history: per coin, the amounts subscribed in this run by
                    \* products that passed the balance check without a borrow

execVars == <<xpc, execList, idx, spotBalances, need, borrowCoin, cands, cidx,
              borrowResult, borrowLog, submitted, xEvent, products, spotPrices,
              putCallBalance, mock, spent>>

\* the credentials of the configuration and the signed requests sent with them
VARIABLES
    apiKey,         \* config.BINANCE_API_KEY is set
    apiSecret,      \* config.BINANCE_API_SECRET is set
    requests        \* history: the functions that have sent a request to the exchange

authVars == <<apiKey, apiSecret, requests>>

\* the calls made on the ledger, for the properties of SharedState on its own
VARIABLES
    persisted,      \* history: per id, the status updatePosition last wrote to the file
    lastOp          \* history: the last call, its arguments and whether its write was done

ledgerVars == <<persisted, lastOp>>

\* the calls of the minimum-ROI functions of the configuration
VARIABLES
    roiFn,          \* the function called last
    roiDays,        \* its argument daysToExpiry
    roiFloor        \* its result, in hundredths of a percent

roiVars == <<roiFn, roiDays, roiFloor>>

\* the paging loop of fetchPositions
VARIABLES
    fpc,            \* position in fetchPositions
    pageIndex,      \* let pageIndex
    allPositions,   \* let allPositions
    pagesSeen,      \* history: the lists of the pages received in this call
    pageError,      \* history: a request of this call threw
    fetchReturn     \* what the call returned

pagingVars == <<fpc, pageIndex, allPositions, pagesSeen, pageError, fetchReturn>>

\* the requests fanned out by fetchSpotPrices and fetchDualInvestmentProducts
VARIABLES
    fanFn,          \* the function running, "none" outside a call
    fanBatch,       \* fetchDualInvestmentProducts: the loop variable i, as a batch number
    fanPending,     \* the requests in flight
    fanSent,        \* history: per request, how often it was sent in this call
    fanOutcome,     \* per request, how it settled
    fanCollected,   \* spotPrices / allProducts: the requests whose data was taken
    fanResult       \* what the call returned

fanVars == <<fanFn, fanBatch, fanPending, fanSent, fanOutcome, fanCollected, fanResult>>

\* what the actions of the cycle and of the hedge monitor leave alone
notCycleVars == <<execVars, authVars, ledgerVars, roiVars, pagingVars, fanVars>>

\* what the actions of runExecution leave alone
notExecVars == <<vars, authVars, ledgerVars, roiVars, pagingVars, fanVars>>

\* what the calls of the request functions leave alone
notAuthVars == <<vars, execVars, ledgerVars, roiVars, pagingVars, fanVars>>

\* what the calls made on the ledger leave alone
notLedgerVars == <<alive, cronScheduled, cronLock, inProgress, pc, fetched, sinceUpdated,
                   lastEvent, breachAge, orders, execVars, authVars, roiVars, pagingVars,
                   fanVars>>

\* what the calls of the minimum-ROI functions leave alone
notRoiVars == <<vars, execVars, authVars, ledgerVars, pagingVars, fanVars>>

\* what fetchPositions leaves alone
notPagingVars == <<vars, execVars, authVars, ledgerVars, roiVars, fanVars>>

\* what the fanned-out fetches leave alone
notFanVars == <<vars, execVars, authVars, ledgerVars, roiVars, pagingVars>>

\* the locals of runExecution and the settings of the call that execute does not
\* touch
runLocals == <<products, spotPrices, putCallBalance, mock>>

allVars == <<vars, execVars, authVars, ledgerVars, roiVars, pagingVars, fanVars>>

Files == [readable : BOOLEAN, entries : StatusMaps]

Targets == {"STEP1", "FULL"}

NoOrders == [t \in Targets |-> 0]

\* an elapsed time after one more cron interval
Older(age) == IF age = Null THEN Null ELSE IF age + CRON_MINUTES > MaxAge THEN MaxAge ELSE age + CRON_MINUTES

\* ------------------------------------------------------------ SharedState
\* getHedgeStatus returning the step after the stored one
getHedgeStatusNextStep(m, id) ==
    IF m[id] = Absent THEN "NONE" ELSE IF m[id] = "NONE" THEN "STEP1" ELSE "FULL"

\* getHedgeStatus: lookup in the in-memory map, NONE when absent
getHedgeStatus(m, id) == IF m[id] # Absent THEN m[id] ELSE "NONE"

\* updatePositions #3: the reported positions, each with the status of the map
injectHedgeStatus(m, ids) == [i \in Ids |-> IF i \in ids THEN getHedgeStatus(m, i) ELSE Absent]

\* a read of positions.log that never fails
ReadOkAlways(file) == TRUE

\* what a read of positions.log parses to; a failed read or parse has no value
ReadOk(file) == file.readable

\* loadHedgeStatus without the clear(): the file's entries are merged into the map
loadHedgeStatusNoClear(m, file) ==
    IF ReadOk(file)
    THEN [i \in Ids |-> IF file.entries[i] # Absent THEN file.entries[i] ELSE m[i]]
    ELSE m

\* loadHedgeStatus: replace the map by the file's entries, keep it when the read fails
loadHedgeStatus(m, file) == IF ReadOk(file) THEN file.entries ELSE m

\* fs.writeFile(positionsFile, content) with the given outcome
writeFile(file, content, outcome) ==
    CASE outcome = "ok" -> [readable |-> TRUE, entries |-> content]
      [] outcome = "failUnchanged" -> file
      [] outcome = "failTruncated" -> [readable |-> TRUE, entries |-> EmptyMap]
      [] outcome = "failPartial" -> [readable |-> FALSE, entries |-> EmptyMap]

\* updatePosition, file part: read (an unreadable file counts as {}), set the entry, write
\* a set that drops the statuses of the other ids
setHedgeStatusOnly(m, id, status) == [EmptyMap EXCEPT ![id] = status]

\* updatePosition: this.hedgeStatuses.set(position.id, hedgeStatus)
setHedgeStatus(m, id, status) == [m EXCEPT ![id] = status]

\* updatePosition writing the one entry without reading the file first
updatePositionFileNoRead(file, id, status, outcome) ==
    writeFile(file, [EmptyMap EXCEPT ![id] = status], outcome)

updatePositionFile(file, id, status, outcome) ==
    LET old == IF ReadOk(file) THEN file.entries ELSE EmptyMap
    IN writeFile(file, [old EXCEPT ![id] = status], outcome)

\* ------------------------------------------------------------------ hedge
\* BaseStrategy.calculateBreakEven, in hundredths: strike * (1 +/- roi)
calculateBreakEven(strike, roiPct, optionType) ==
    strike * (100 + (IF optionType = "CALL" THEN roiPct ELSE 0 - roiPct))

\* adverse breach of break-even: above it for a CALL, below it for a PUT
\* (no breach is seen when fetchCurrentPrice returned null)
Breached(id, spot) ==
    LET be == calculateBreakEven(StrikePrice(id), RoiPct(id), OptionType(id))
    IN /\ spot # Null
       /\ IF OptionType(id) = "CALL" THEN spot * 100 > be ELSE spot * 100 < be

\* the breach has been seen for the whole confirmation window
Confirmed(age) == age # Null /\ age >= BREACH_CONFIRMATION_MINUTES

\* monitorAndHedge without the staleness guard
StaleNever(since) == FALSE

\* monitorAndHedge: the staleness guard (Date.now() - null is Date.now())
Stale(since) == since = Null \/ since > STALE_MINUTES

\* monitorPositions: the target passed to executeHedge
monitorTarget(current) == "STEP1"

\* monitorPositions: whether executeHedge is called, given the random draw
monitorFires(draw, current) == draw

\* executeHedge without the test of orderResult
executeHedgeSetsAlways(orderResult) == TRUE

\* executeHedge: the status is set only when the order call returned a result
executeHedgeSets(orderResult) == orderResult = "ok"

\* ------------------------------------------------------------------ cycle
\* safeRun without the guard
safeRunNeverSkips(lock) == FALSE

\* safeRun: the guard of line 32
safeRunSkips(lock) == lock

\* safeRun releasing the lock after the await only, without finally
safeRunReleaseNoFinally(threw) == threw

\* safeRun: the lock after the task settled (finally)
safeRunRelease(threw) == FALSE

\* mainLoop without the check of the total
StopTotalNever(pos) == FALSE

\* mainLoop: the two process.exit conditions
StopTotal(pos) == Cardinality(Keys(pos)) >= MAX_TOTAL_POSITIONS

\* the hedged check with a threshold of one position
StopHedgedAtOne(pos) == Cardinality({i \in Keys(pos) : pos[i] # "NONE"}) >= 1

StopHedged(pos) == Cardinality({i \in Keys(pos) : pos[i] # "NONE"}) >= MAX_TOTAL_POSITIONS

\* ---------------------------------------------------------------- execution
\* config: INVESTMENT_AMOUNT, ALLOCATION_FRACTION (0.1) and PUT_CALL_BALANCE (-0.5),
\* the two fractions in hundredths
INVESTMENT_AMOUNT == 10000

ALLOCATION_FRACTION_PCT == 10

PUT_CALL_BALANCE_PCT == -50

\* filterAndProcessProducts: products.slice(0, 3)
SLICE_END == 3

\* the products the exchange can list: pA a PUT on ETH investing USDT, pB a CALL on
\* BTC investing BTC
Products == {"pA", "pB"}

productOptionType(p) == IF p = "pA" THEN "PUT" ELSE "CALL"

investCoin(p) == IF p = "pA" THEN "USDT" ELSE "BTC"

exercisedCoin(p) == IF p = "pA" THEN "ETH" ELSE "USDT"

strikePrice(p) == IF p = "pA" THEN 50 ELSE 100

\* fetchDualInvestmentProducts: null (the empty list here), or the products found,
\* sorted by exercisedCoin + investCoin and option type
ProductResults == {<<>>, <<"pA">>, <<"pB">>, <<"pA", "pB">>}

\* the pairs config.SUPPORTED_ASSETS.getActivePairs() gives, as <<base, quote>>
ActivePairs == {<<"BTC", "USDT">>, <<"ETH", "USDT">>}

\* fetchSpotPrices: null, or the map of the pairs whose price request succeeded
SpotResults == {[ok |-> FALSE, pairs |-> {}]} \cup {[ok |-> TRUE, pairs |-> S] : S \in SUBSET ActivePairs}

\* the locals of runExecution outside a run
NoSpot == [ok |-> FALSE, pairs |-> {}]

\* SharedState.spotBalances as handed to execute (free amounts of USDT and BTC)
BalanceSets == {[c \in {"USDT", "BTC"} |-> IF c = "USDT" THEN u ELSE b] : u \in {0, 500}, b \in {0, 5}}

\* fetchCurrentPrice of the CALL branch of execute
ExecPrices == {100, 500}

SubscribeResponses == {"ok", "rejected", "staleRate"}

NoSubmissions == [p \in Products |-> 0]

NoSpending == [c \in {"USDT", "BTC"} |-> 0]

\* the settings of PUT_CALL_BALANCE looked at, in percent: short only, the shipped
\* one, both sides, long only
PutCallBalances == {-100, PUT_CALL_BALANCE_PCT, 0, 100}

isStable(coin) == coin = "USDT" \/ coin = "FDUSD"

\* execute: coinConfigKey, as <<base, quote>>
coinConfigKey(p) ==
    IF isStable(investCoin(p)) THEN <<exercisedCoin(p), investCoin(p)>>
    ELSE <<investCoin(p), exercisedCoin(p)>>

\* config.SUPPORTED_ASSETS[key] exists and is active
SupportedActive(key) ==
    key \in {<<"BTC", "USDT">>, <<"BTC", "FDUSD">>, <<"ETH", "USDT">>, <<"ETH", "FDUSD">>,
             <<"SOL", "USDT">>, <<"ADA", "USDT">>, <<"AVAX", "USDT">>}

\* computeBreakEven of the V2 filter, in hundredths
computeBreakEven(p, roiPct) ==
    strikePrice(p) * (100 + (IF productOptionType(p) = "CALL" THEN roiPct ELSE 0 - roiPct))

\* an allocation that gives both sides the whole amount
calculateAllocationFull(putCallBalancePct, investmentAmount) ==
    [putAllocation |-> investmentAmount, callAllocation |-> investmentAmount]

\* ALLOCATION_ALGORITHMS.calculateAllocation
calculateAllocation(putCallBalancePct, investmentAmount) ==
    [putAllocation |-> IF putCallBalancePct >= 0 THEN investmentAmount
                       ELSE (investmentAmount * (100 + putCallBalancePct)) \div 100,
     callAllocation |-> (investmentAmount * (IF putCallBalancePct < 0 THEN 100
                                              ELSE 100 - putCallBalancePct)) \div 100]

\* execute: totalStablecoinAmount, putAmount and callAmount
totalStablecoinAmount == (INVESTMENT_AMOUNT * ALLOCATION_FRACTION_PCT) \div 100

putAmount == calculateAllocation(putCallBalance, totalStablecoinAmount).putAllocation

callAmount == calculateAllocation(putCallBalance, totalStablecoinAmount).callAllocation

\* execute: the coin whose spot balance is compared with the amount needed
balanceCoinOf(p) ==
    IF productOptionType(p) = "PUT" THEN investCoin(p)
    ELSE IF isStable(investCoin(p)) THEN exercisedCoin(p) ELSE investCoin(p)

\* the join looking every product up under exercisedCoin + investCoin
spotPairKeyPutOnly(p) == <<exercisedCoin(p), investCoin(p)>>

\* runExecution: the key under which a product's spot price is looked up
spotPairKey(p) ==
    IF productOptionType(p) = "PUT" THEN <<exercisedCoin(p), investCoin(p)>>
    ELSE <<investCoin(p), exercisedCoin(p)>>

\* runExecution: products.filter(p => p.spotPrice) after the join
productsWithSpot(prods, spot) ==
    LET keep(p) == spotPairKey(p) \in spot.pairs IN SelectSeq(prods, keep)

\* filterAndProcessProducts: the breakEven it puts on a product, in hundredths
filterBreakEven(p) == strikePrice(p) * 105

\* filterAndProcessProducts: the first three products, whatever isShortTerm is
filterAndProcessProducts(prods, isShortTerm) ==
    SubSeq(prods, 1, IF Len(prods) < SLICE_END THEN Len(prods) ELSE SLICE_END)

\* execute continuing with the subscription whatever borrowCoins returned
executeAfterBorrowAlways(result) == "subscribe"

\* execute: continue when borrowCoins returned null, else go on to subscribe
executeAfterBorrow(result) == IF result = "null" THEN "continue" ELSE "subscribe"

\* ------------------------------------------------------------ borrowCoins
\* COLLATERAL_CONFIG.assets, in the order of Object.entries
Assets == <<"BTC", "FDUSD", "USDT">>

CollateralEnabled(a) == TRUE

CollateralPriority(a) == CASE a = "BTC" -> 1 [] a = "FDUSD" -> 2 [] a = "USDT" -> 3

\* the comparison of the priorities the other way round
comparePriorityReversed(a, b) == CollateralPriority(b) - CollateralPriority(a)

\* aConfig.priority - bConfig.priority
comparePriority(a, b) == CollateralPriority(a) - CollateralPriority(b)

\* the comparator given to sort, for the coin borrowed
compareCollateral(coin, a, b) ==
    IF coin = "BTC"
    THEN IF a = "BTC" THEN 1 ELSE IF b = "BTC" THEN 0 - 1 ELSE comparePriority(a, b)
    ELSE IF a = "BTC" THEN 0 - 1 ELSE IF b = "BTC" THEN 1 ELSE comparePriority(a, b)

RECURSIVE InsertSorted(_, _, _)
\* stable insertion of x into the sorted list s
InsertSorted(coin, x, s) ==
    IF s = <<>> THEN <<x>>
    ELSE IF compareCollateral(coin, x, Head(s)) < 0 THEN <<x>> \o s
    ELSE <<Head(s)>> \o InsertSorted(coin, x, Tail(s))

RECURSIVE SortCollateral(_, _)
\* Array.prototype.sort with the comparator
SortCollateral(coin, s) ==
    IF s = <<>> THEN <<>>
    ELSE InsertSorted(coin, s[Len(s)], SortCollateral(coin, SubSeq(s, 1, Len(s) - 1)))

\* borrowCoins: the enabled assets in the order they are tried
collateralAssets(coin) == SortCollateral(coin, SelectSeq(Assets, CollateralEnabled))

\* borrowCoins giving up at the first rejected request
borrowAfterRejectGivesUp(i, n) == n + 1

\* borrowCoins: continue with the next candidate after a rejected request
borrowAfterReject(i, n) == i + 1

\* no run of runExecution is in progress
\* the shipped configuration and the call of runExecution: execute(allProcessed,
\* config, false, sharedState.spotBalances)
ShippedCall ==
    /\ putCallBalance = PUT_CALL_BALANCE_PCT
    /\ mock = FALSE

RunIdle ==
    /\ xpc = "idle"
    /\ execList = <<>>
    /\ idx = 0
    /\ spotBalances = [c \in {"USDT", "BTC"} |-> 0]
    /\ need = 0
    /\ borrowCoin = "none"
    /\ cands = <<>>
    /\ cidx = 0
    /\ borrowResult = "none"
    /\ borrowLog = <<>>
    /\ submitted = NoSubmissions
    /\ xEvent = "none"
    /\ products = <<>>
    /\ spotPrices = NoSpot
    /\ spent = NoSpending

ExecIdle ==
    /\ RunIdle
    /\ ShippedCall

\* the credentials both set, nothing sent
AuthIdle ==
    /\ apiKey = TRUE
    /\ apiSecret = TRUE
    /\ requests = {}

NoOp == [op |-> "none", id |-> "none", status |-> "none", ids |-> {}, ok |-> FALSE,
         repeat |-> FALSE]

\* no call made on the ledger yet
LedgerIdle ==
    /\ persisted = EmptyMap
    /\ lastOp = NoOp

\* no minimum-ROI function called yet
RoiIdle ==
    /\ roiFn = "none"
    /\ roiDays = 0
    /\ roiFloor = 0

\* fetchPositions returning null
NullReturn == [ok |-> FALSE, list |-> <<>>]

\* fetchPositions not called
PagingIdle ==
    /\ fpc = "idle"
    /\ pageIndex = 0
    /\ allPositions = <<>>
    /\ pagesSeen = <<>>
    /\ pageError = FALSE
    /\ fetchReturn = NullReturn

\* the requests one call fans out: two batches
FanRequests == {1, 2, 3, 4}

NotReturned == [returned |-> FALSE, isNull |-> FALSE, data |-> {}]

\* no fanned-out fetch called
FanIdle ==
    /\ fanFn = "none"
    /\ fanBatch = 0
    /\ fanPending = {}
    /\ fanSent = [r \in FanRequests |-> 0]
    /\ fanOutcome = [r \in FanRequests |-> "none"]
    /\ fanCollected = {}
    /\ fanResult = NotReturned

\* the parts of the state that belong to single functions, at rest
FunctionsIdle ==
    /\ RoiIdle
    /\ PagingIdle
    /\ FanIdle

Init ==
    /\ alive = TRUE
    /\ cronScheduled = FALSE
    /\ cronLock = FALSE
    /\ inProgress = 1
    /\ pc = "updatePositions"
    /\ fetched = NoFetch
    /\ hedgeStatuses = EmptyMap
    /\ positions = EmptyMap
    /\ sinceUpdated = Null
    /\ positionsFile \in [readable : {TRUE}, entries : StatusMaps]
    /\ lastEvent = "none"
    /\ breachAge = [i \in Ids |-> Null]
    /\ orders = [i \in Ids |-> NoOrders]
    /\ ExecIdle
    /\ AuthIdle
    /\ LedgerIdle
    /\ FunctionsIdle

\* one cron interval of wall-clock time passes (a cycle's own steps are taken as
\* instantaneous)
Tick ==
    /\ alive
    /\ pc = "idle"
    /\ sinceUpdated' = Older(sinceUpdated)
    /\ breachAge' = [i \in Ids |-> Older(breachAge[i])]
    /\ UNCHANGED <<alive, cronScheduled, cronLock, inProgress, pc, fetched, hedgeStatuses,
                   positions, positionsFile, lastEvent, orders>>
    /\ UNCHANGED notCycleVars

\* cron fires: () => safeRun(mainLoop)
Trigger ==
    /\ alive
    /\ cronScheduled
    /\ IF safeRunSkips(cronLock)
       THEN /\ lastEvent' = "dropped"
            /\ UNCHANGED <<cronLock, cycleVars>>
       ELSE /\ cronLock' = TRUE
            /\ inProgress' = inProgress + 1
            /\ pc' = "updatePositions"
            /\ lastEvent' = "ran"
            /\ UNCHANGED <<fetched, hedgeStatuses, positions, sinceUpdated,
                           positionsFile>>
    /\ UNCHANGED <<alive, cronScheduled, hedgeHist>>
    /\ UNCHANGED notCycleVars

\* updatePositions #1 to #3: fetchPositions returns, the ledger is loaded, the statuses
\* are injected and lastUpdated is stamped.  The histories of an id the exchange no
\* longer reports end with its lifetime.
UpdatePositions ==
    /\ alive
    /\ pc = "updatePositions"
    /\ \E r \in FetchResults :
         LET m == loadHedgeStatus(hedgeStatuses, positionsFile)
         IN /\ fetched' = r
            /\ hedgeStatuses' = m
            /\ positions' = injectHedgeStatus(m, r.ids)
            /\ breachAge' = [i \in Ids |-> IF r.ok /\ i \notin r.ids THEN Null ELSE breachAge[i]]
            /\ orders' = [i \in Ids |-> IF r.ok /\ i \notin r.ids THEN NoOrders ELSE orders[i]]
    /\ sinceUpdated' = 0
    /\ pc' = "writePositionsLog"
    /\ UNCHANGED <<alive, cronScheduled, cronLock, inProgress, positionsFile, lastEvent>>
    /\ UNCHANGED notCycleVars

\* the request of fetchPositions never returns (axios is given no timeout)
FetchHangs ==
    /\ alive
    /\ pc = "updatePositions"
    /\ pc' = "hung"
    /\ UNCHANGED <<alive, cronScheduled, cronLock, inProgress, fetched, hedgeStatuses,
                   positions, sinceUpdated, positionsFile, histVars>>
    /\ UNCHANGED notCycleVars

\* updatePositions #4: positions.log is rewritten from the active positions
WritePositionsLog ==
    /\ alive
    /\ pc = "writePositionsLog"
    /\ \E o \in WriteOutcomes : positionsFile' = writeFile(positionsFile, positions, o)
    /\ fetched' = NoFetch
    /\ pc' = "stopCheck"
    /\ UNCHANGED <<alive, cronScheduled, cronLock, inProgress, hedgeStatuses,
                   positions, sinceUpdated, histVars>>
    /\ UNCHANGED notCycleVars

\* the mainLoop execution settles: start() goes on to cron.schedule, safeRun to finally
Settle(threw) ==
    /\ inProgress' = inProgress - 1
    /\ pc' = "idle"
    /\ lastEvent' = IF threw THEN "threw" ELSE "returned"
    /\ IF cronScheduled
       THEN /\ cronLock' = safeRunRelease(threw)
            /\ UNCHANGED cronScheduled
       ELSE /\ cronScheduled' = TRUE
            /\ UNCHANGED cronLock

\* mainLoop after updateSpotBalances: a stop condition holds, process.exit(0)
StopProgram ==
    /\ alive
    /\ pc = "stopCheck"
    /\ StopTotal(positions) \/ StopHedged(positions)
    /\ alive' = FALSE
    /\ UNCHANGED <<cronScheduled, cronLock, cycleVars, histVars>>
    /\ UNCHANGED notCycleVars

\* mainLoop returns
FinishCycle ==
    /\ alive
    /\ pc = "stopCheck"
    /\ ~StopTotal(positions)
    /\ ~StopHedged(positions)
    /\ Settle(FALSE)
    /\ UNCHANGED <<alive, fetched, hedgeStatuses, positions, sinceUpdated, positionsFile, hedgeHist>>
    /\ UNCHANGED notCycleVars

\* the task given to safeRun rejects: catch, then finally
TaskThrows ==
    /\ alive
    /\ cronScheduled
    /\ pc = "stopCheck"
    /\ Settle(TRUE)
    /\ UNCHANGED <<alive, fetched, hedgeStatuses, positions, sinceUpdated, positionsFile, hedgeHist>>
    /\ UNCHANGED notCycleVars

\* executeHedge for position id with the given order result and ledger write outcome
executeHedge(id, target, res, o) ==
    /\ IF executeHedgeSets(res)
       THEN /\ positions' = [positions EXCEPT ![id] = target]
            /\ hedgeStatuses' = setHedgeStatus(hedgeStatuses, id, target)
            /\ positionsFile' = updatePositionFile(positionsFile, id, target, o)
       ELSE UNCHANGED <<positions, hedgeStatuses, positionsFile>>
    /\ orders' = IF res = "ok" THEN [orders EXCEPT ![id][target] = @ + 1] ELSE orders
    /\ lastEvent' = IF res = "ok" THEN "orderOk" ELSE "orderNull"

\* monitorAndHedge / monitorPositions: one iteration of the loop, for position id
MonitorPosition(id) ==
    /\ alive
    /\ pc = "idle"
    /\ positions[id] # Absent
    /\ ~Stale(sinceUpdated)
    /\ \E spot \in Prices \cup {Null} :
         breachAge' = [breachAge EXCEPT ![id] =
                          IF Breached(id, spot) THEN (IF @ = Null THEN 0 ELSE @) ELSE Null]
    /\ \E draw \in BOOLEAN :
         IF monitorFires(draw, positions[id])
         THEN /\ orders[id][monitorTarget(positions[id])] < MaxOrders
              /\ \/ executeHedge(id, monitorTarget(positions[id]), "null", "ok")
                 \/ \E o \in WriteOutcomes :
                      executeHedge(id, monitorTarget(positions[id]), "ok", o)
         ELSE UNCHANGED <<positions, hedgeStatuses, positionsFile, orders, lastEvent>>
    /\ UNCHANGED <<alive, cronScheduled, cronLock, inProgress, pc, fetched, sinceUpdated>>
    /\ UNCHANGED notCycleVars

\* runExecution returns before execute: nothing is handed over
ReturnEarly(ev) ==
    /\ xpc' = "idle"
    /\ execList' = <<>>
    /\ idx' = 0
    /\ need' = 0
    /\ borrowCoin' = "none"
    /\ cands' = <<>>
    /\ cidx' = 0
    /\ borrowResult' = "none"
    /\ borrowLog' = <<>>
    /\ submitted' = NoSubmissions
    /\ spent' = NoSpending
    /\ xEvent' = ev

\* runExecution #6 to #10: the cap check, the two fetches, the two filters and the
\* call of execute with the concatenated list
RunExecution ==
    /\ alive
    /\ pc = "idle"
    /\ xpc = "idle"
    /\ \E bal \in BalanceSets : spotBalances' = bal
    /\ UNCHANGED <<putCallBalance, mock>>
    /\ IF Cardinality(Keys(positions)) >= MAX_TOTAL_POSITIONS
       THEN /\ ReturnEarly("maxPositions")
            /\ products' = <<>>
            /\ spotPrices' = NoSpot
       ELSE \E spot \in SpotResults : \E prods \in ProductResults :
              LET withSpot == productsWithSpot(prods, spot)
                  allProcessed == filterAndProcessProducts(withSpot, TRUE)
                                     \o filterAndProcessProducts(withSpot, FALSE)
              IN /\ spotPrices' = spot
                 /\ products' = IF spot.ok THEN prods ELSE <<>>
                 /\ IF ~spot.ok THEN ReturnEarly("noSpotPrices")
                    ELSE IF prods = <<>> THEN ReturnEarly("noProducts")
                    ELSE IF withSpot = <<>> THEN ReturnEarly("noProductsWithSpot")
                    ELSE IF allProcessed = <<>> THEN ReturnEarly("noEligible")
                    ELSE /\ xpc' = "execute"
                         /\ execList' = allProcessed
                         /\ idx' = 1
                         /\ need' = 0
                         /\ borrowCoin' = "none"
                         /\ cands' = <<>>
                         /\ cidx' = 0
                         /\ borrowResult' = "none"
                         /\ borrowLog' = <<>>
                         /\ submitted' = NoSubmissions
                         /\ spent' = NoSpending
                         /\ xEvent' = "execute"
    /\ UNCHANGED notExecVars

\* execute: continue with the next product of the loop
NextProduct(ev) ==
    /\ xpc' = "execute"
    /\ idx' = idx + 1
    /\ need' = 0
    /\ cands' = <<>>
    /\ cidx' = 0
    /\ borrowResult' = "none"
    /\ xEvent' = ev

\* execute: the balance check of a product needing amount of coin, whose balance is
\* looked up under balanceCoin
CheckBalance(amount, coin, balanceCoin) ==
    /\ need' = amount
    /\ borrowResult' = "none"
    /\ IF spotBalances[balanceCoin] < amount
       THEN /\ xpc' = "borrow"
            /\ borrowCoin' = coin
            /\ cands' = collateralAssets(coin)
            /\ cidx' = 1
            /\ borrowLog' = <<>>
            /\ xEvent' = "insufficient"
       ELSE /\ xpc' = "subscribe"
            /\ xEvent' = "sufficient"
            /\ UNCHANGED <<borrowCoin, cands, cidx, borrowLog>>
    /\ UNCHANGED idx

\* execute: one product of the loop, up to its balance check
ExecuteProduct ==
    /\ xpc = "execute"
    /\ idx <= Len(execList)
    /\ LET p == execList[idx]
       IN IF ~SupportedActive(coinConfigKey(p))
          THEN NextProduct("noCoinConfig") /\ UNCHANGED <<borrowCoin, borrowLog>>
          ELSE IF productOptionType(p) = "PUT" /\ putAmount >= 1
          THEN CheckBalance(putAmount, investCoin(p), investCoin(p))
          ELSE IF productOptionType(p) = "CALL" /\ callAmount >= 1
          THEN \E currentPrice \in ExecPrices \cup {Null} :
                 IF currentPrice = Null
                 THEN NextProduct("noPrice") /\ UNCHANGED <<borrowCoin, borrowLog>>
                 ELSE CheckBalance(callAmount \div currentPrice, investCoin(p),
                                   IF isStable(investCoin(p)) THEN exercisedCoin(p)
                                   ELSE investCoin(p))
          ELSE NextProduct("noAmount") /\ UNCHANGED <<borrowCoin, borrowLog>>
    /\ UNCHANGED <<execList, spotBalances, submitted, spent>>
    /\ UNCHANGED runLocals
    /\ UNCHANGED notExecVars

\* execute: the loop is over, execute and runExecution return
EndExecute ==
    /\ xpc = "execute"
    /\ idx > Len(execList)
    /\ xpc' = "idle"
    /\ xEvent' = "returned"
    /\ UNCHANGED <<execList, idx, spotBalances, need, borrowCoin, cands, cidx,
                   borrowResult, borrowLog, submitted, spent>>
    /\ UNCHANGED runLocals
    /\ UNCHANGED notExecVars

\* execute after borrowCoins returned result
AfterBorrow(result) ==
    /\ borrowResult' = result
    /\ IF executeAfterBorrow(result) = "continue"
       THEN /\ xpc' = "execute"
            /\ idx' = idx + 1
       ELSE /\ xpc' = "subscribe"
            /\ UNCHANGED idx

\* borrowCoins: one candidate of the loop: its price fetches, then the borrow request
BorrowCandidate ==
    /\ xpc = "borrow"
    /\ cidx <= Len(cands)
    /\ \E pricesOk \in BOOLEAN : \E response \in {"ok", "rejected"} :
         IF ~pricesOk
         THEN /\ cidx' = cidx + 1
              /\ xEvent' = "priceUnavailable"
              /\ UNCHANGED <<xpc, idx, borrowResult, borrowLog>>
         ELSE /\ borrowLog' = Append(borrowLog, cands[cidx])
              /\ IF response = "ok"
                 THEN /\ AfterBorrow("data")
                      /\ xEvent' = "borrowed"
                      /\ UNCHANGED cidx
                 ELSE /\ cidx' = borrowAfterReject(cidx, Len(cands))
                      /\ xEvent' = "borrowRejected"
                      /\ UNCHANGED <<xpc, idx, borrowResult>>
    /\ UNCHANGED <<execList, spotBalances, need, borrowCoin, cands, submitted, spent>>
    /\ UNCHANGED runLocals
    /\ UNCHANGED notExecVars

\* borrowCoins: every candidate was skipped or rejected, return null
BorrowExhausted ==
    /\ xpc = "borrow"
    /\ cidx > Len(cands)
    /\ AfterBorrow("null")
    /\ xEvent' = "borrowExhausted"
    /\ UNCHANGED <<execList, spotBalances, need, borrowCoin, cands, cidx, borrowLog,
                   submitted, spent>>
    /\ UNCHANGED runLocals
    /\ UNCHANGED notExecVars

\* subscribeToProduct for the current product.  On the stale-rate rejection the
\* catch block evaluates retriedProducts.has(product.id); no retriedProducts is
\* declared in helpers/utils.js or anywhere else, so the evaluation throws a
\* ReferenceError, which leaves subscribeToProduct, execute and runExecution.
Subscribe ==
    /\ xpc = "subscribe"
    /\ IF mock
       THEN /\ xpc' = "execute"
            /\ idx' = idx + 1
            /\ xEvent' = "mockSubscribed"
            /\ UNCHANGED <<submitted, spent>>
       ELSE /\ submitted' = [submitted EXCEPT ![execList[idx]] = @ + 1]
            /\ \E response \in SubscribeResponses :
                 /\ spent' = IF response = "ok" /\ xEvent = "sufficient"
                             THEN [spent EXCEPT ![balanceCoinOf(execList[idx])] = @ + need]
                             ELSE spent
                 /\ CASE response = "ok" ->
                           /\ xpc' = "execute"
                           /\ idx' = idx + 1
                           /\ xEvent' = "subscribed"
                      [] response = "rejected" ->
                           /\ xpc' = "execute"
                           /\ idx' = idx + 1
                           /\ xEvent' = "subscribeFailed"
                      [] response = "staleRate" ->
                           /\ xpc' = "idle"
                           /\ xEvent' = "subscribeThrew"
                           /\ UNCHANGED idx
    /\ UNCHANGED <<execList, spotBalances, need, borrowCoin, cands, cidx, borrowResult,
                   borrowLog>>
    /\ UNCHANGED runLocals
    /\ UNCHANGED notExecVars

Next ==
    \/ Tick
    \/ Trigger
    \/ UpdatePositions
    \/ FetchHangs
    \/ WritePositionsLog
    \/ StopProgram
    \/ FinishCycle
    \/ TaskThrows
    \/ \E id \in Ids : MonitorPosition(id)

Spec == Init /\ [][Next]_allVars

\* runExecution called between two cycles, with the active set a cycle left
\* the module state when runExecution is called, after an updatePositions
ExecStart ==
    /\ alive = TRUE
    /\ cronScheduled = TRUE
    /\ cronLock = FALSE
    /\ inProgress = 0
    /\ pc = "idle"
    /\ hedgeStatuses = EmptyMap
    /\ \E r \in FetchResults :
         /\ Cardinality(r.ids) < MAX_TOTAL_POSITIONS
         /\ fetched = r
         /\ positions = [i \in Ids |-> IF i \in r.ids THEN "NONE" ELSE Absent]
    /\ sinceUpdated = 0
    /\ positionsFile = [readable |-> TRUE, entries |-> positions]
    /\ lastEvent = "returned"
    /\ breachAge = [i \in Ids |-> Null]
    /\ orders = [i \in Ids |-> NoOrders]
    /\ AuthIdle
    /\ LedgerIdle
    /\ FunctionsIdle

ExecInit ==
    /\ ExecStart
    /\ ExecIdle

\* runExecution and execute under every setting of PUT_CALL_BALANCE and of mock
AllocInit ==
    /\ ExecStart
    /\ RunIdle
    /\ putCallBalance \in PutCallBalances
    /\ mock \in BOOLEAN

ExecNext ==
    \/ RunExecution
    \/ ExecuteProduct
    \/ EndExecute
    \/ BorrowCandidate
    \/ BorrowExhausted
    \/ Subscribe

ExecSpec == ExecInit /\ [][ExecNext]_allVars

AllocSpec == AllocInit /\ [][ExecNext]_allVars

\* the functions of helpers/utils.js that sign a request and send it
SignedFunctions ==
    {"fetchDualInvestmentProducts", "fetchDualProductByMeta", "fetchPositions",
     "getCurrentLoans", "borrowCoins", "fetchSpotBalances", "subscribeToProduct"}

\* generateSignature: throws when the secret is missing
generateSignatureThrows(secret) == ~secret

\* openCrossMarginPosition: returns null before any request when the configuration,
\* the secret or the key is missing
openCrossMarginPositionReturns(key, secret) == ~secret \/ ~key

\* the module state between cycles, with no position and an empty ledger
CycleQuiet ==
    /\ alive = TRUE
    /\ cronScheduled = TRUE
    /\ cronLock = FALSE
    /\ inProgress = 0
    /\ pc = "idle"
    /\ fetched = NoFetch
    /\ hedgeStatuses = EmptyMap
    /\ positions = EmptyMap
    /\ sinceUpdated = 0
    /\ positionsFile = [readable |-> TRUE, entries |-> EmptyMap]
    /\ lastEvent = "returned"
    /\ breachAge = [i \in Ids |-> Null]
    /\ orders = [i \in Ids |-> NoOrders]

\* a call of one of the signing functions: generateSignature runs inside the try
\* of the function before axios is called; when it throws, the catch returns the
\* failure value and nothing is sent. The key is put in the header unchecked.
SignedCall(f) ==
    /\ requests' = IF generateSignatureThrows(apiSecret) THEN requests
                   ELSE requests \cup {f}
    /\ UNCHANGED <<apiKey, apiSecret>>
    /\ UNCHANGED notAuthVars

\* a call of openCrossMarginPosition of hedge/utils.js
OpenCrossMarginPosition ==
    /\ requests' = IF openCrossMarginPositionReturns(apiKey, apiSecret) THEN requests
                   ELSE requests \cup {"openCrossMarginPosition"}
    /\ UNCHANGED <<apiKey, apiSecret>>
    /\ UNCHANGED notAuthVars

AuthInit ==
    /\ CycleQuiet
    /\ ExecIdle
    /\ LedgerIdle
    /\ FunctionsIdle
    /\ apiKey \in BOOLEAN
    /\ apiSecret \in BOOLEAN
    /\ requests = {}

AuthNext ==
    \/ \E f \in SignedFunctions : SignedCall(f)
    \/ OpenCrossMarginPosition

AuthSpec == AuthInit /\ [][AuthNext]_allVars

\* what is known to be in the file of the statuses updatePosition wrote, after a
\* write with the given outcome: a failed write that empties or breaks the file
\* leaves nothing known
persistedAfter(p, outcome) ==
    IF outcome \in {"failTruncated", "failPartial"} THEN EmptyMap ELSE p

\* a call of SharedState.updatePosition(position, hedgeStatus)
UpdatePositionCall(id, status, o) ==
    /\ hedgeStatuses' = setHedgeStatus(hedgeStatuses, id, status)
    /\ positionsFile' = updatePositionFile(positionsFile, id, status, o)
    /\ persisted' = IF o = "ok"
                    THEN [i \in Ids |-> IF i = id THEN status
                                        ELSE IF ReadOk(positionsFile) THEN persisted[i]
                                        ELSE Absent]
                    ELSE persistedAfter(persisted, o)
    /\ lastOp' = [op |-> "updatePosition", id |-> id, status |-> status, ids |-> {},
                  ok |-> o = "ok",
                  repeat |-> /\ o = "ok"
                             /\ lastOp.op = "updatePosition"
                             /\ lastOp.id = id
                             /\ lastOp.status = status
                             /\ lastOp.ok]
    /\ UNCHANGED positions
    /\ UNCHANGED notLedgerVars

\* a call of updatePositions of index.js, its write included
UpdatePositionsCall(r, o) ==
    LET m == loadHedgeStatus(hedgeStatuses, positionsFile)
        injected == injectHedgeStatus(m, r.ids)
    IN /\ hedgeStatuses' = m
       /\ positions' = injected
       /\ positionsFile' = writeFile(positionsFile, injected, o)
       /\ persisted' = [i \in Ids |-> IF r.ok /\ i \notin r.ids THEN Absent
                                       ELSE persistedAfter(persisted, o)[i]]
       /\ lastOp' = [op |-> "updatePositions", id |-> "none", status |-> "none",
                     ids |-> r.ids, ok |-> r.ok, repeat |-> FALSE]
       /\ UNCHANGED notLedgerVars

\* the process is started again: the in-memory state is empty, the file is kept
Restart ==
    /\ hedgeStatuses' = EmptyMap
    /\ positions' = EmptyMap
    /\ lastOp' = [NoOp EXCEPT !.op = "restart"]
    /\ UNCHANGED <<positionsFile, persisted>>
    /\ UNCHANGED notLedgerVars

LedgerInit ==
    /\ alive = TRUE
    /\ cronScheduled = TRUE
    /\ cronLock = FALSE
    /\ inProgress = 0
    /\ pc = "idle"
    /\ fetched = NoFetch
    /\ hedgeStatuses = EmptyMap
    /\ positions = EmptyMap
    /\ sinceUpdated = 0
    /\ positionsFile \in [readable : {TRUE}, entries : StatusMaps]
    /\ lastEvent = "returned"
    /\ breachAge = [i \in Ids |-> Null]
    /\ orders = [i \in Ids |-> NoOrders]
    /\ ExecIdle
    /\ AuthIdle
    /\ LedgerIdle
    /\ FunctionsIdle

LedgerNext ==
    \/ \E id \in Ids : \E status \in HEDGE_STATUS : \E o \in WriteOutcomes :
          UpdatePositionCall(id, status, o)
    \/ \E r \in FetchResults : \E o \in WriteOutcomes : UpdatePositionsCall(r, o)
    \/ Restart

LedgerSpec == LedgerInit /\ [][LedgerNext]_allVars

\* the minimum ROI, its daily increment and its cap, in hundredths of a percent
MIN_ROI == 75

ROI_INCREMENT == 10

ROI_CAP == 700

Max2(a, b) == IF a > b THEN a ELSE b

Min2(a, b) == IF a < b THEN a ELSE b

\* the floor without Math.min
getMinRoiForExpiryNoCap(daysToExpiry) ==
    MIN_ROI + Max2(0, daysToExpiry - 2) * ROI_INCREMENT

\* HEDGE_SAFETY.getMinRoiForExpiry
getMinRoiForExpiry(daysToExpiry) ==
    Min2(MIN_ROI + Max2(0, daysToExpiry - 2) * ROI_INCREMENT, ROI_CAP)

\* RISK_MANAGEMENT.calculateMinimumROI
calculateMinimumROI(daysToExpiry) ==
    Min2(MIN_ROI + Max2(0, daysToExpiry - 2) * ROI_INCREMENT, ROI_CAP)

CallGetMinRoiForExpiry ==
    /\ \E d \in 1..MaxDays :
         /\ roiDays' = d
         /\ roiFloor' = getMinRoiForExpiry(d)
    /\ roiFn' = "getMinRoiForExpiry"
    /\ UNCHANGED notRoiVars

CallCalculateMinimumROI ==
    /\ \E d \in 1..MaxDays :
         /\ roiDays' = d
         /\ roiFloor' = calculateMinimumROI(d)
    /\ roiFn' = "calculateMinimumROI"
    /\ UNCHANGED notRoiVars

RoiInit ==
    /\ CycleQuiet
    /\ ExecIdle
    /\ AuthIdle
    /\ LedgerIdle
    /\ FunctionsIdle

RoiNext ==
    \/ CallGetMinRoiForExpiry
    \/ CallCalculateMinimumROI

RoiSpec == RoiInit /\ [][RoiNext]_allVars

\* pageSize of the positions request, 100 in the source
PAGE_SIZE == 2

PurchaseStatus == {"PURCHASE_SUCCESS", "PURCHASE_FAIL"}

RECURSIVE SeqsUpTo(_)
\* the lists of purchase statuses of at most n entries
SeqsUpTo(n) ==
    IF n = 0 THEN {<<>>}
    ELSE LET shorter == SeqsUpTo(n - 1)
         IN shorter \cup {Append(q, st) : q \in {t \in shorter : Len(t) = n - 1},
                                           st \in PurchaseStatus}

\* response.data.list of one page
PageLists == SeqsUpTo(PAGE_SIZE)

\* fetchedPositions.filter(pos => pos.purchaseStatus === 'PURCHASE_SUCCESS')
activePositionsOf(fetchedPositions) ==
    LET success(st) == st = "PURCHASE_SUCCESS" IN SelectSeq(fetchedPositions, success)

\* a catch handing back what the pages before the error gave
fetchPositionsCatchPartial(all) == [ok |-> TRUE, list |-> all]

\* fetchPositions: the catch block returns null
fetchPositionsCatch(all) == NullReturn

\* fetchPositions is called
FetchPositionsStart ==
    /\ fpc = "idle"
    /\ fpc' = "page"
    /\ pageIndex' = 1
    /\ allPositions' = <<>>
    /\ pagesSeen' = <<>>
    /\ pageError' = FALSE
    /\ fetchReturn' = NullReturn
    /\ UNCHANGED notPagingVars

\* one iteration of the loop whose request succeeds, the return included when
\* the loop ends with it
FetchPage ==
    /\ fpc = "page"
    /\ \E fetchedPositions \in PageLists :
         LET all == allPositions \o activePositionsOf(fetchedPositions)
         IN /\ pageIndex = MaxPages => Len(fetchedPositions) < PAGE_SIZE
            /\ pagesSeen' = Append(pagesSeen, fetchedPositions)
            /\ allPositions' = all
            /\ IF Len(fetchedPositions) < PAGE_SIZE
               THEN /\ fpc' = "idle"
                    /\ fetchReturn' = [ok |-> TRUE, list |-> all]
                    /\ UNCHANGED pageIndex
               ELSE /\ pageIndex' = pageIndex + 1
                    /\ UNCHANGED <<fpc, fetchReturn>>
    /\ UNCHANGED pageError
    /\ UNCHANGED notPagingVars

\* one iteration whose signature or request throws
FetchPageThrows ==
    /\ fpc = "page"
    /\ pageError' = TRUE
    /\ fpc' = "idle"
    /\ fetchReturn' = fetchPositionsCatch(allPositions)
    /\ UNCHANGED <<pageIndex, allPositions, pagesSeen>>
    /\ UNCHANGED notPagingVars

PagingInit ==
    /\ CycleQuiet
    /\ ExecIdle
    /\ AuthIdle
    /\ LedgerIdle
    /\ FunctionsIdle

PagingNext ==
    \/ FetchPositionsStart
    \/ FetchPage
    \/ FetchPageThrows

PagingSpec == PagingInit /\ [][PagingNext]_allVars

\* batchSize of fetchDualInvestmentProducts, 10 in the source
BATCH_SIZE == 2

\* fetchPromises.slice(i, i + batchSize) of batch number b, counted from 1
batchOf(b) == {r \in FanRequests : (b - 1) * BATCH_SIZE < r /\ r <= b * BATCH_SIZE}

\* a Promise.all that resolves with the first request settled
promiseAllFirst(pending, batch) == pending # batch

\* await Promise.all(promises): resolved when no request of the batch is in flight
promiseAll(pending, batch) == pending \cap batch = {}

\* fetchSpotPrices is called: one request per active pair, all sent at once
CallFetchSpotPrices ==
    /\ fanFn = "none"
    /\ fanFn' = "fetchSpotPrices"
    /\ fanBatch' = 0
    /\ fanPending' = FanRequests
    /\ fanSent' = [r \in FanRequests |-> 1]
    /\ fanOutcome' = [r \in FanRequests |-> "none"]
    /\ fanCollected' = {}
    /\ fanResult' = NotReturned
    /\ UNCHANGED notFanVars

\* fetchSpotPrices: the request of one pair settles; its own try/catch stores the
\* price or logs the failure
SpotRequestSettles(r, ok) ==
    /\ fanFn = "fetchSpotPrices"
    /\ r \in fanPending
    /\ fanPending' = fanPending \ {r}
    /\ fanOutcome' = [fanOutcome EXCEPT ![r] = IF ok THEN "ok" ELSE "failed"]
    /\ fanCollected' = IF ok THEN fanCollected \cup {r} ELSE fanCollected
    /\ UNCHANGED <<fanFn, fanBatch, fanSent, fanResult>>
    /\ UNCHANGED notFanVars

\* fetchSpotPrices: Promise.all resolved, return spotPrices
SpotReturn ==
    /\ fanFn = "fetchSpotPrices"
    /\ promiseAll(fanPending, FanRequests)
    /\ fanResult' = [returned |-> TRUE, isNull |-> FALSE, data |-> fanCollected]
    /\ fanFn' = "none"
    /\ UNCHANGED <<fanBatch, fanPending, fanSent, fanOutcome, fanCollected>>
    /\ UNCHANGED notFanVars

\* fetchDualInvestmentProducts is called: the first batch is sent
CallFetchProducts ==
    /\ fanFn = "none"
    /\ fanFn' = "fetchDualInvestmentProducts"
    /\ fanBatch' = 1
    /\ fanPending' = batchOf(1)
    /\ fanSent' = [r \in FanRequests |-> IF r \in batchOf(1) THEN 1 ELSE 0]
    /\ fanOutcome' = [r \in FanRequests |-> "none"]
    /\ fanCollected' = {}
    /\ fanResult' = NotReturned
    /\ UNCHANGED notFanVars

\* fetchDualInvestmentProducts: one request of the batch settles; its .catch turns
\* a failure into a result holding the error
ProductRequestSettles(r, ok) ==
    /\ fanFn = "fetchDualInvestmentProducts"
    /\ r \in fanPending
    /\ fanPending' = fanPending \ {r}
    /\ fanOutcome' = [fanOutcome EXCEPT ![r] = IF ok THEN "ok" ELSE "failed"]
    /\ UNCHANGED <<fanFn, fanBatch, fanSent, fanCollected, fanResult>>
    /\ UNCHANGED notFanVars

\* fetchDualInvestmentProducts: Promise.all of the batch resolved; the results
\* without an error are pushed to allProducts, then the next batch is sent or the
\* function returns, null when allProducts is empty
BatchDone ==
    /\ fanFn = "fetchDualInvestmentProducts"
    /\ promiseAll(fanPending, batchOf(fanBatch))
    /\ LET all == fanCollected \cup {r \in batchOf(fanBatch) : fanOutcome[r] = "ok"}
           next == batchOf(fanBatch + 1)
       IN /\ fanCollected' = all
          /\ IF next # {}
             THEN /\ fanBatch' = fanBatch + 1
                  /\ fanPending' = fanPending \cup next
                  /\ fanSent' = [r \in FanRequests |-> IF r \in next THEN fanSent[r] + 1
                                                       ELSE fanSent[r]]
                  /\ UNCHANGED <<fanFn, fanResult>>
             ELSE /\ fanResult' = [returned |-> TRUE, isNull |-> all = {}, data |-> all]
                  /\ fanFn' = "none"
                  /\ UNCHANGED <<fanBatch, fanPending, fanSent>>
    /\ UNCHANGED fanOutcome
    /\ UNCHANGED notFanVars

FanInit ==
    /\ CycleQuiet
    /\ ExecIdle
    /\ AuthIdle
    /\ LedgerIdle
    /\ FunctionsIdle

FanNext ==
    \/ CallFetchSpotPrices
    \/ \E r \in FanRequests : \E ok \in BOOLEAN : SpotRequestSettles(r, ok)
    \/ SpotReturn
    \/ CallFetchProducts
    \/ \E r \in FanRequests : \E ok \in BOOLEAN : ProductRequestSettles(r, ok)
    \/ BatchDone

FanSpec == FanInit /\ [][FanNext]_allVars

ExecTypeOK ==
    /\ xpc \in {"idle", "execute", "borrow", "subscribe"}
    /\ execList \in Seq(Products)
    /\ idx \in 0..(Len(execList) + 1)
    /\ spotBalances \in BalanceSets \cup {[c \in {"USDT", "BTC"} |-> 0]}
    /\ need \in Nat
    /\ borrowCoin \in {"none", "BTC", "USDT", "FDUSD"}
    /\ cands \in Seq({"BTC", "USDT", "FDUSD"})
    /\ cidx \in 0..(Len(cands) + 1)
    /\ borrowResult \in {"none", "null", "data"}
    /\ borrowLog \in Seq({"BTC", "USDT", "FDUSD"})
    /\ submitted \in [Products -> Nat]
    /\ putCallBalance \in PutCallBalances
    /\ mock \in BOOLEAN
    /\ spent \in [{"USDT", "BTC"} -> Nat]
    /\ products \in ProductResults
    /\ spotPrices \in SpotResults

TypeOK ==
    /\ alive \in BOOLEAN
    /\ cronScheduled \in BOOLEAN
    /\ cronLock \in BOOLEAN
    /\ inProgress \in 0..2
    /\ pc \in {"updatePositions", "writePositionsLog",
               "stopCheck", "idle", "hung"}
    /\ fetched \in FetchResults
    /\ hedgeStatuses \in StatusMaps
    /\ positions \in StatusMaps
    /\ sinceUpdated \in {Null} \cup 0..MaxAge
    /\ positionsFile \in Files
    /\ lastEvent \in {"none", "ran", "dropped", "returned", "threw", "orderNull", "orderOk"}
    /\ breachAge \in [Ids -> {Null} \cup 0..MaxAge]
    /\ orders \in [Ids -> [Targets -> 0..MaxOrders]]

\* the scheduler keeps firing, replies that arrive are handled and a started cycle
\* goes on; the exchange's reply to fetchPositions either arrives or never does
FairSpec ==
    /\ Spec
    /\ WF_vars(Trigger)
    /\ WF_vars(UpdatePositions \/ FetchHangs)
    /\ WF_vars(WritePositionsLog)
    /\ WF_vars(StopProgram \/ FinishCycle \/ TaskThrows)

\* ------------------------------------------------------------------ claims
\* the ledger holds a readable entry for id i
HasEntry(file, i) == file.readable /\ file.entries[i] # Absent

\* the hedge status the ledger stores for id i, NONE when it has none
LedgerStatus(file, i) == IF HasEntry(file, i) THEN file.entries[i] ELSE "NONE"

\* a step of the hedge monitor or of the clock: no cycle is between its awaits
BetweenCycles == pc = "idle" /\ pc' = "idle"

\* C1: the hedge status of an id never decreases in the order NONE < STEP1 < FULL,
\* in the in-memory status map, in its active position and in its ledger entry.
C1_StatusNeverDecreases ==
    [][\A i \in Ids :
         /\ Rank(getHedgeStatus(hedgeStatuses', i)) >= Rank(getHedgeStatus(hedgeStatuses, i))
         /\ (positions[i] # Absent /\ positions'[i] # Absent)
               => Rank(positions'[i]) >= Rank(positions[i])
         /\ (HasEntry(positionsFile, i) /\ HasEntry(positionsFile', i))
               => Rank(positionsFile'.entries[i]) >= Rank(positionsFile.entries[i])]_vars

\* C2: at most one mainLoop execution is in progress; a cycle starts under cron only
\* by a trigger that found the lock free and took it; a trigger that finds the lock
\* taken changes nothing of the cycle and nothing is left to run when the cycle
\* settles; the lock is only ever taken once start() has scheduled the cron job.
C2_NoOverlap ==
    /\ [](inProgress <= 1)
    /\ [](pc = "idle" => inProgress = 0)
    /\ [](cronLock => cronScheduled)
    /\ [][/\ (inProgress' > inProgress) => (~cronLock /\ cronLock' /\ lastEvent' = "ran")
          /\ (lastEvent' = "dropped" /\ lastEvent # "dropped")
                => (cronLock /\ UNCHANGED <<cronLock, cycleVars>>)]_vars

C2_Witness == lastEvent = "dropped" /\ cronLock /\ inProgress = 1 /\ pc = "stopCheck"

\* C3: a margin order is confirmed for a position only in an evaluation that sees the
\* price in adverse breach of break-even and has seen it so for the whole
\* confirmation window.
C3_OrderOnlyAfterConfirmation ==
    [][\A i \in Ids : \A t \in Targets :
         orders'[i][t] > orders[i][t] => Confirmed(breachAge'[i])]_vars

\* C4: over the lifetime of a position at most one margin order is confirmed per
\* target status.
C4_AtMostOneOrder == \A i \in Ids : \A t \in Targets : orders[i][t] <= 1

\* C5: an executeHedge whose order call returned no result leaves the status in
\* memory and in the ledger as it was, and a status changes between cycles only
\* together with a confirmed order.
C5_StatusOnlyOnConfirmedOrder ==
    [][/\ (BetweenCycles /\ lastEvent' = "orderNull")
             => UNCHANGED <<positions, hedgeStatuses, positionsFile>>
       /\ (BetweenCycles /\ <<positions, hedgeStatuses, positionsFile>>'
                               # <<positions, hedgeStatuses, positionsFile>>)
             => (lastEvent' = "orderOk" /\ orders' # orders)]_vars

C5_Witness ==
    /\ lastEvent = "orderNull"
    /\ \E i \in Ids : positions[i] = "NONE" /\ orders[i]["STEP1"] < MaxOrders
                      /\ ~Stale(sinceUpdated) /\ pc = "idle"

\* C6: while a position is active with status FULL, no margin order is confirmed for
\* it and its status stays FULL.
C6_FullIsTerminal ==
    [][\A i \in Ids :
         (positions[i] = "FULL" /\ positions'[i] # Absent)
            => /\ positions'[i] = "FULL"
               /\ \A t \in Targets : orders'[i][t] <= orders[i][t]]_vars

\* C7: whenever no cycle is in progress the lock is free, whether the task returned
\* or threw, and a trigger that fires then starts a cycle.
C7_LockReleased ==
    /\ [](pc = "idle" => ~cronLock)
    /\ [][(pc = "idle" /\ lastEvent' \in {"ran", "dropped"}) =>
             (lastEvent' = "ran" /\ pc' = "updatePositions" /\ cronLock')]_vars

C7_Witness == lastEvent = "threw" /\ pc = "idle" /\ ~cronLock /\ cronScheduled /\ alive

\* C8: a held lock is always released in the end (while the process lives), also
\* when the cycle holding it never completes.
C8_LockEventuallyReleased == (alive /\ cronLock) ~> (~alive \/ ~cronLock)

\* C9: the rewrite of positions.log at the end of updatePositions keeps, with its
\* hedge status, every entry whose id the exchange did not report.
C9_ReconcileKeepsEntries ==
    [][(pc = "writePositionsLog" /\ pc' = "stopCheck" /\ fetched.ok
          /\ positionsFile' = [readable |-> TRUE, entries |-> positions])
         => \A i \in Ids :
              (HasEntry(positionsFile, i) /\ i \notin fetched.ids)
                 => LedgerStatus(positionsFile', i) = positionsFile.entries[i]
                    /\ HasEntry(positionsFile', i)]_vars

Reconciled == positionsFile = [readable |-> TRUE, entries |-> positions]

C12_StaleNeverEvaluated ==
    [][(BetweenCycles /\ (sinceUpdated = Null \/ sinceUpdated > STALE_MINUTES))
          => /\ UNCHANGED <<positions, hedgeStatuses, positionsFile, orders, lastEvent>>
             /\ breachAge' \in {breachAge, [i \in Ids |-> Older(breachAge[i])]}]_vars

C12_Witness ==
    /\ alive
    /\ pc = "idle"
    /\ sinceUpdated > STALE_MINUTES
    /\ \E i \in Ids : positions[i] = "NONE" /\ orders[i]["STEP1"] = 0

\* the candidates borrowCoins has been through so far, in the order it took them
Tried == SubSeq(cands, 1, IF cidx - 1 > Len(cands) THEN Len(cands) ELSE cidx - 1)

\* the product of the current iteration of execute
CurrentProduct == execList[idx]

\* C13: while BTC is the coin to borrow, no borrow request is sent with BTC as the
\* collateral coin.
C13_NeverOwnCollateral ==
    borrowCoin = "BTC" => \A i \in 1..Len(borrowLog) : borrowLog[i] # "BTC"

\* C14: the candidates borrowCoins goes through are enabled, pairwise different and,
\* leaving the borrowed coin aside, in ascending order of priority; the borrow
\* requests go to candidates it went through, each at most once.
C14_PriorityOrder ==
    /\ \A i \in 1..Len(Tried) : CollateralEnabled(Tried[i])
    /\ \A i \in 1..Len(Tried) : \A j \in 1..Len(Tried) :
         i < j => /\ Tried[i] # Tried[j]
                  /\ (Tried[i] # borrowCoin /\ Tried[j] # borrowCoin)
                        => CollateralPriority(Tried[i]) <= CollateralPriority(Tried[j])
    /\ xpc = "borrow" =>
         /\ \A i \in 1..Len(borrowLog) : \E j \in 1..Len(Tried) : borrowLog[i] = Tried[j]
         /\ \A i \in 1..Len(borrowLog) : \A j \in 1..Len(borrowLog) :
              i # j => borrowLog[i] # borrowLog[j]

C14_Witness ==
    /\ xpc = "borrow"
    /\ borrowCoin = "BTC"
    /\ cidx > Len(cands)
    /\ Len(Tried) = 3
    /\ Len(borrowLog) = 2

\* C15: in borrowCoins a candidate without its prices is passed over with no
\* request, a rejected request is followed by the next candidate, the first
\* accepted request ends the call with its result, and when every candidate was
\* passed over or rejected the call returns null to execute; no borrow request is
\* sent outside the loop.
C15_BorrowLoop ==
    [][/\ xpc = "borrow" =>
            /\ xEvent' \in {"priceUnavailable", "borrowRejected", "borrowed", "borrowExhausted"}
            /\ xEvent' = "priceUnavailable"
                  => (borrowLog' = borrowLog /\ xpc' = "borrow" /\ cidx' = cidx + 1)
            /\ xEvent' = "borrowRejected"
                  => (borrowLog' = Append(borrowLog, cands[cidx]) /\ xpc' = "borrow"
                      /\ cidx' = cidx + 1)
            /\ xEvent' = "borrowed"
                  => (borrowLog' = Append(borrowLog, cands[cidx]) /\ xpc' # "borrow"
                      /\ borrowResult' = "data")
            /\ xEvent' = "borrowExhausted"
                  => (cidx > Len(cands) /\ borrowLog' = borrowLog /\ xpc' = "execute"
                      /\ borrowResult' = "null")
       /\ (borrowLog' # borrowLog /\ xpc # "borrow") => borrowLog' = <<>>]_allVars

C15_Witness ==
    /\ xEvent = "borrowExhausted"
    /\ borrowResult = "null"
    /\ xpc = "execute"
    /\ Len(borrowLog) = 2

\* C16: a cycle that reaches its stop checks with at least MAX_TOTAL_POSITIONS
\* active positions ends with process.exit: unless the task rejects, mainLoop does
\* not return to wait for the next trigger, and a stopped process stays stopped at
\* the check.
C16_StopsAtCap ==
    /\ [](~alive => pc = "stopCheck")
    /\ [][(pc = "stopCheck" /\ alive
             /\ Cardinality(Keys(positions)) >= MAX_TOTAL_POSITIONS
             /\ <<alive, pc>>' # <<alive, pc>>)
          => (~alive' \/ lastEvent' = "threw")]_vars

C16_Witness ==
    /\ ~alive
    /\ pc = "stopCheck"
    /\ lastEvent \in {"ran", "dropped"}
    /\ Cardinality(Keys(positions)) >= MAX_TOTAL_POSITIONS
    /\ \A i \in Keys(positions) : positions[i] = "NONE"

\* C17: the list handed to execute is no longer than the room left under
\* MAX_TOTAL_POSITIONS, and the active positions plus the subscribe requests of
\* the run never exceed MAX_TOTAL_POSITIONS.
C17_WithinResidualRoom ==
    xpc \in {"execute", "borrow", "subscribe"}
       => /\ Len(execList) <= MAX_TOTAL_POSITIONS - Cardinality(Keys(positions))
          /\ Cardinality(Keys(positions)) + submitted["pA"] + submitted["pB"]
                <= MAX_TOTAL_POSITIONS

\* C18: the list handed to execute holds no product twice, and no product gets two
\* subscribe requests in one run.
C18_NoDuplicates ==
    /\ \A i \in 1..Len(execList) : \A j \in 1..Len(execList) :
         i # j => execList[i] # execList[j]
    /\ \A p \in Products : submitted[p] <= 1

\* C19: execute goes to borrowCoins exactly for a product whose required amount
\* exceeds the balance of its invest coin; when the balance suffices it subscribes
\* with no borrow; when borrowCoins returns null it sends no subscribe request for
\* the product and goes on with the next one; a subscribe request follows only a
\* sufficient balance or a successful borrow.
C19_BorrowBeforeSubscribe ==
    [][/\ (xpc = "execute" /\ idx <= Len(execList) /\ need' > 0)
             => IF need' > spotBalances[investCoin(CurrentProduct)]
                THEN xpc' = "borrow" /\ borrowCoin' = investCoin(CurrentProduct)
                     /\ borrowLog' = <<>>
                ELSE xpc' = "subscribe" /\ borrowLog' = borrowLog
       /\ (xpc = "execute" /\ xpc' \in {"borrow", "subscribe"}) => need' > 0
       /\ (xpc = "borrow" /\ borrowResult' = "null")
             => (xpc' = "execute" /\ idx' = idx + 1 /\ submitted' = submitted)
       /\ (xpc = "borrow" /\ xpc' = "subscribe") => borrowResult' = "data"
       /\ (submitted' # submitted /\ submitted' # NoSubmissions)
             => (xpc = "subscribe" /\ xEvent \in {"sufficient", "borrowed"})]_allVars

C19_Witness ==
    /\ xEvent = "borrowExhausted"
    /\ xpc = "execute"
    /\ idx = 2
    /\ Len(execList) >= 2
    /\ need > spotBalances[investCoin(execList[1])]
    /\ submitted = NoSubmissions

\* C20: a subscribe request rejected with the stale-rate code ends with
\* subscribeToProduct handing its result to execute, after at most one further
\* request for the product.
C20_StaleRateRetriedOnce ==
    [][(xpc = "subscribe" /\ xEvent' \notin {"subscribed", "subscribeFailed"})
          => /\ xEvent' \in {"retrySubscribed", "retryFailed", "retryNoMatch"}
             /\ xpc' = "execute"
             /\ submitted'[CurrentProduct] <= submitted[CurrentProduct] + 2]_allVars

\* C21: a subscribe request that the exchange rejects, whatever the code, hands
\* control back to the loop of execute, which goes on with the next product of
\* the same list.
C21_RejectionStaysInExecute ==
    [][(xpc = "subscribe")
          => (xpc' = "execute" /\ idx' = idx + 1 /\ execList' = execList)]_allVars

\* C22: execute runs only in a cycle whose fetches of the positions, of the spot
\* prices and of the products all gave data.
C22_ExecuteNeedsAllFetches ==
    (xpc # "idle") => (fetched.ok /\ spotPrices.ok /\ products # <<>>)

\* C23: while the API key or the API secret is missing, no function has sent an
\* authenticated request to the exchange.
C23_NoRequestWithoutCredentials ==
    (~apiKey \/ ~apiSecret) => requests = {}

\* C24: a step that takes the status of an active position from NONE or STEP1 to
\* FULL starts from STEP1 and is an evaluation of the hedge monitor that finds the
\* price beyond the break-even.
C24_FullOnlyByEscalation ==
    [][\A i \in Ids :
          (positions[i] \in {"NONE", "STEP1"} /\ positions'[i] = "FULL")
             => /\ positions[i] = "STEP1"
                /\ pc = "idle" /\ pc' = "idle"
                /\ breachAge'[i] # Null]_allVars

\* C27: after a restart, a call of updatePositions whose fetch succeeds gives every
\* position of the list the status updatePosition last wrote to the ledger for its
\* id.
C27_RestartRestoresStatus ==
    [][(lastOp.op = "restart" /\ lastOp'.op = "updatePositions" /\ lastOp'.ok)
          => \A i \in lastOp'.ids :
                persisted[i] # Absent => positions'[i] = persisted[i]]_allVars

RightSide(p, be) ==
    IF productOptionType(p) = "CALL" THEN be > strikePrice(p) * 100
    ELSE be < strikePrice(p) * 100

\* C25: for every positive ROI, the break-even of every product handed to execute is
\* strictly above the strike for a CALL and strictly below it for a PUT, as
\* calculateBreakEven and computeBreakEven compute it and as filterAndProcessProducts
\* annotates it.
C25_BreakEvenSide ==
    \A k \in 1..Len(execList) :
       LET p == execList[k]
       IN /\ \A roi \in 1..MaxRoiPct :
               /\ RightSide(p, calculateBreakEven(strikePrice(p), roi, productOptionType(p)))
               /\ RightSide(p, computeBreakEven(p, roi))
          /\ RightSide(p, filterBreakEven(p))

\* the products of the fetched list whose pair has a spot price
Priced ==
    LET pair(p) == IF productOptionType(p) = "PUT" THEN <<exercisedCoin(p), investCoin(p)>>
                   ELSE <<investCoin(p), exercisedCoin(p)>>
        has(p) == pair(p) \in spotPrices.pairs
    IN SelectSeq(products, has)

\* C26: in a run that fetched spot prices and products, the filters get exactly the
\* products whose pair (exercisedCoin + investCoin for a PUT, investCoin +
\* exercisedCoin for a CALL) has a spot price, and the run skips filtering and
\* execution for want of a price only when no product has one.
C26_SpotJoin ==
    [][(xpc = "idle" /\ spotPrices'.ok /\ products' # <<>>)
          => LET kept == Priced'
             IN /\ (xEvent' = "noProductsWithSpot") <=> (kept = <<>>)
                /\ kept # <<>>
                     => /\ xpc' = "execute"
                        /\ execList' = filterAndProcessProducts(kept, TRUE)
                                           \o filterAndProcessProducts(kept, FALSE)]_allVars

C26_Witness ==
    /\ xEvent = "execute"
    /\ products = <<"pA", "pB">>
    /\ spotPrices.pairs = {<<"BTC", "USDT">>}
    /\ execList = <<"pB", "pB">>

RECURSIVE Flatten(_)
\* the entries of the pages, in order
Flatten(pages) == IF pages = <<>> THEN <<>> ELSE Head(pages) \o Flatten(Tail(pages))

\* C30: once fetchPositions has returned, its result is null when a request threw,
\* and otherwise the PURCHASE_SUCCESS entries of all the pages received, in order;
\* every page before the last one received is full, and a call that returns a list
\* stopped at a page with fewer entries than the page size.
C30_NullOrCompleteList ==
    (fpc = "idle" /\ pagesSeen # <<>>)
       => LET success(st) == st = "PURCHASE_SUCCESS"
              last == pagesSeen[Len(pagesSeen)]
          IN /\ pageError => fetchReturn = NullReturn
             /\ ~pageError
                  => /\ fetchReturn.ok
                     /\ fetchReturn.list = SelectSeq(Flatten(pagesSeen), success)
                     /\ Len(last) < PAGE_SIZE
             /\ \A k \in 1..(Len(pagesSeen) - 1) : Len(pagesSeen[k]) = PAGE_SIZE

\* an error on the second page after a full first page holding active positions
C30_Witness ==
    /\ fpc = "idle"
    /\ pageError
    /\ Len(pagesSeen) = 1
    /\ allPositions # <<>>
    /\ fetchReturn = NullReturn

\* the active positions whose hedge status is not NONE
Hedged == {i \in Ids : positions[i] \in {"STEP1", "FULL"}}

\* C39: whenever the hedged positions reach MAX_TOTAL_POSITIONS the active
\* positions do too, and every step that stops the process is taken with the
\* active positions at MAX_TOTAL_POSITIONS: the total check, which comes first,
\* is the one that stops it.
C39_HedgedStopNeverDecides ==
    /\ [](Cardinality(Hedged) >= MAX_TOTAL_POSITIONS
             => Cardinality(Keys(positions)) >= MAX_TOTAL_POSITIONS)
    /\ [][(alive /\ ~alive')
             => Cardinality(Keys(positions)) >= MAX_TOTAL_POSITIONS]_allVars

\* the process stopped with every active position hedged
C39_Witness ==
    /\ ~alive
    /\ pc = "stopCheck"
    /\ Cardinality(Hedged) >= MAX_TOTAL_POSITIONS

\* C36: when positions.log cannot be read or parsed, the loadHedgeStatus of
\* updatePositions leaves the in-memory map as it was and the call goes on to
\* build the position list from that map.
C36_FailedLoadKeepsMap ==
    [][(pc = "updatePositions" /\ pc' = "writePositionsLog" /\ ~positionsFile.readable)
          => /\ hedgeStatuses' = hedgeStatuses
             /\ \A i \in fetched'.ids :
                   positions'[i] = (IF hedgeStatuses[i] = Absent THEN "NONE"
                                    ELSE hedgeStatuses[i])]_allVars

\* a failed load with statuses in memory
C36_Witness ==
    /\ pc = "writePositionsLog"
    /\ ~positionsFile.readable
    /\ \E i \in fetched.ids : hedgeStatuses[i] = "STEP1" /\ positions[i] = "STEP1"

\* C33: the write that ends an updatePositions whose fetch returned null leaves
\* every id of the ledger stored with the status it had.
C33_FailedFetchKeepsLedger ==
    [][(pc = "writePositionsLog" /\ ~fetched.ok /\ pc' = "stopCheck")
          => \A i \in Ids :
                HasEntry(positionsFile, i)
                   => (HasEntry(positionsFile', i)
                         /\ positionsFile'.entries[i] = positionsFile.entries[i])]_allVars

\* C34: after an executeHedge whose margin order succeeded, the status of the
\* position object and of the hedgeStatuses map equals the status the ledger file
\* stores for the id, whatever the outcome of the ledger write.
C34_MemoryEqualsLedger ==
    [][\A i \in Ids :
          (orders'[i] # orders[i] /\ lastEvent' = "orderOk")
             => /\ positions'[i] = hedgeStatuses'[i]
                /\ HasEntry(positionsFile', i)
                /\ positionsFile'.entries[i] = positions'[i]]_allVars

C32_OneSidedAllocation ==
    [][/\ \A p \in Products :
            submitted'[p] > submitted[p]
               => /\ ~(putCallBalance = -100 /\ productOptionType(p) = "PUT")
                  /\ ~(putCallBalance = 100 /\ productOptionType(p) = "CALL")
       /\ (xpc = "execute" /\ idx <= Len(execList) /\ xEvent' # "noCoinConfig")
             => LET p == execList[idx]
                IN /\ (putCallBalance = -100 /\ productOptionType(p) = "PUT")
                         => xEvent' = "noAmount"
                   /\ (putCallBalance = 100 /\ productOptionType(p) = "CALL")
                         => xEvent' = "noAmount"
                   /\ (putCallBalance = 0 /\ productOptionType(p) = "PUT")
                         => need' = totalStablecoinAmount
                   /\ (putCallBalance = 0 /\ productOptionType(p) = "CALL"
                          /\ xEvent' # "noPrice")
                         => \E price \in ExecPrices :
                               need' = totalStablecoinAmount \div price]_allVars

\* a PUT product passed over under the short-only setting
C32_Witness ==
    /\ putCallBalance = -100
    /\ ~mock
    /\ xEvent = "noAmount"
    /\ xpc = "execute"
    /\ idx = 2
    /\ productOptionType(execList[1]) = "PUT"

\* C37: a run whose execute is called with mock = true has sent no subscribe
\* request and no borrow request.
C37_MockSendsNothing ==
    mock => (submitted = NoSubmissions /\ borrowLog = <<>>)

\* C38: within one call of execute, the amounts of a coin subscribed by products
\* that passed the balance check without a borrow add up to at most the spot
\* balance of the coin handed to the call.
C38_WithinSpotBalance ==
    \A c \in {"USDT", "BTC"} : spent[c] <= spotBalances[c]

\* C31: when fetchSpotPrices or fetchDualInvestmentProducts has returned, every
\* request it sent has settled, each request was sent once, and the result holds
\* the data of exactly the requests that succeeded.
C31_AllSettledOnce ==
    fanResult.returned
       => /\ fanPending = {}
          /\ \A r \in FanRequests : fanSent[r] = 1 /\ fanOutcome[r] \in {"ok", "failed"}
          /\ fanResult.data = {r \in FanRequests : fanOutcome[r] = "ok"}

\* a call that returned the data of three requests while the fourth had failed
C31_Witness ==
    /\ fanResult.returned
    /\ fanOutcome[2] = "failed"
    /\ fanResult.data = {1, 3, 4}

====
